---- MODULE Spec2Model ----
(***************************************************************************)
(* Product scraper service: the ScrapeJob and ProductData models           *)
(* (app/models/product.py), the Firestore adapter                          *)
(* (app/services/firebase.py), the Trader Joe's scraper                    *)
(* (app/scrapers/traderjoes.py, app/scrapers/base.py), the category        *)
(* crawler (app/scrapers/product_url_scraper.py) and the request handlers  *)
(* and background task of app/main.py.                                     *)
(*                                                                         *)
(* Python values: None is NoneVal; a str field holds a string; a text read *)
(* from a page is a sequence of tokens (words, " " and "|"), so that       *)
(* strip(), split() and replace() do what they do in the code; an id made  *)
(* by uuid4() is a fresh string; datetime.now() is the object DatetimeNow  *)
(* and its isoformat() the string IsoNow (the instant itself is not        *)
(* modelled, only whether a field holds one and of which Python type).     *)
(***************************************************************************)
EXTENDS Integers, Sequences, FiniteSets, TLC

(* ------------------------------ bounds -------------------------------- *)

\* jobs one run of the service creates
MaxJobs == 2
\* ProductData objects one run constructs (each takes a fresh uuid4 id)
MaxProducts == 2
\* failure transitions applied to one ScrapeJob object
MaxFails == 4
\* method calls applied to one free ScrapeJob object
MaxCalls == 4
\* seconds one call of scrape takes
MaxElapsed == 2
\* pages of a category listing
MaxSitePages == 2
\* the largest max_pages a ProductUrlScraper is made with
MaxPageCap == 3
\* tokens of a text handed to parse_ingredients
MaxTextLen == 4
\* pages one crawl without max_pages is followed through
MaxLoads == MaxPageCap + 1

(* --------------------------- Python values ---------------------------- *)

NoneVal == "None"
DatetimeNow == "<datetime>"
IsoNow == "iso-timestamp"

\* str(uuid.uuid4()): the n-th id drawn, distinct for distinct n
Uuid(prefix, n) == prefix \o ToString(n)

ProductIds == {Uuid("p", n) : n \in 1..(MaxProducts + 1)}

ErrorTexts == {"TypeError", "Failed to load page content", "Timeout"}

(* ------------------- ScrapeJob (app/models/product.py) ----------------- *)

\* ScrapeJob(job_id=..., url=..., status=..., created_at=..., max_retries=...)
\* with the dataclass defaults for the fields not given
ScrapeJob(job_id, url, status, created_at, max_retries) ==
    [job_id |-> job_id, url |-> url, status |-> status,
     created_at |-> created_at, started_at |-> NoneVal,
     completed_at |-> NoneVal, result_product_id |-> NoneVal,
     error_message |-> NoneVal, retry_count |-> 0,
     max_retries |-> max_retries, options |-> "{}"]

mark_processing(job) ==
    [job EXCEPT !.status = "processing", !.started_at = IsoNow]

mark_completed(job, product_id) ==
    [job EXCEPT !.status = "completed", !.completed_at = IsoNow,
                !.result_product_id = product_id]

\* mark_failed without the assignment of error_message
MarkFailedNoMessage(job, error) ==
    [job EXCEPT !.status = "failed", !.completed_at = IsoNow,
                !.retry_count = @ + 1]

mark_failed(job, error) ==
    [job EXCEPT !.status = "failed", !.completed_at = IsoNow,
                !.error_message = error, !.retry_count = @ + 1]

DefaultMaxRetries == 3

(* ------------------ ProductData (app/models/product.py) ---------------- *)

\* An Optional[...] object that is not a str is a set: {} is None, {v} is v.
NoneObj == {}
Some(v) == {v}
TheOne(s) == CHOOSE v \in s : TRUE

\* ProductData(...) with the dataclass defaults for the fields not given:
\* product_name "", brand/description/price None, ingredients [],
\* allergens/nutrition_facts None, scrape_duration 0.0, status "pending"
ProductDefaults(id) ==
    [id |-> id, url |-> "", product_name |-> <<>>, brand |-> NoneVal,
     description |-> NoneVal, price |-> NoneVal, ingredients |-> <<>>,
     allergens |-> NoneObj, nutrition_facts |-> NoneVal,
     scraped_at |-> IsoNow, scrape_duration |-> 0,
     scrape_status |-> "pending", error_message |-> NoneVal,
     scraper_version |-> "1.0.0"]

ProductKeys ==
    {"id", "url", "product_name", "brand", "description", "price",
     "ingredients", "allergens", "nutrition_facts", "scraped_at",
     "scrape_duration", "scrape_status", "error_message", "scraper_version"}

\* ProductData.to_dict: the dictionary written to Firestore
to_dict(p) == [k \in ProductKeys |-> p[k]]

\* dict.get(key, default)
DictGet(data, key, default) ==
    IF key \in DOMAIN data THEN data[key] ELSE default

\* from_dict reading an absent brand as "" and an absent error_message as ""
FromDictNoneAsEmpty(data, fresh) ==
    [k \in ProductKeys |->
        IF k \in {"brand", "error_message"} /\ data[k] = NoneVal THEN ""
        ELSE data[k]]

\* ProductData.from_dict; fresh is the uuid4 drawn for a document without id
from_dict(data, fresh) ==
    LET d == ProductDefaults(fresh) IN
    [id |-> DictGet(data, "id", d.id),
     url |-> DictGet(data, "url", ""),
     product_name |-> DictGet(data, "product_name", <<>>),
     brand |-> DictGet(data, "brand", NoneVal),
     description |-> DictGet(data, "description", NoneVal),
     price |-> DictGet(data, "price", NoneVal),
     ingredients |-> DictGet(data, "ingredients", <<>>),
     allergens |-> DictGet(data, "allergens", NoneObj),
     nutrition_facts |-> DictGet(data, "nutrition_facts", NoneVal),
     scraped_at |-> DictGet(data, "scraped_at", IsoNow),
     scrape_duration |-> DictGet(data, "scrape_duration", 0),
     scrape_status |-> DictGet(data, "scrape_status", "pending"),
     error_message |-> DictGet(data, "error_message", NoneVal),
     scraper_version |-> DictGet(data, "scraper_version", "1.0.0")]

(* ------------------------- texts read from pages ----------------------- *)

RECURSIVE LStrip(_)
LStrip(t) == IF t # <<>> /\ Head(t) = " " THEN LStrip(Tail(t)) ELSE t

RECURSIVE RStrip(_)
RStrip(t) ==
    IF t # <<>> /\ t[Len(t)] = " " THEN RStrip(SubSeq(t, 1, Len(t) - 1)) ELSE t

\* str.strip()
Strip(t) == RStrip(LStrip(t))

\* str.split("|")[0]: the text before the first "|"
RECURSIVE BeforeBar(_)
BeforeBar(t) ==
    IF t = <<>> \/ Head(t) = "|" THEN <<>> ELSE <<Head(t)>> \o BeforeBar(Tail(t))

\* str.replace(word, "")
RECURSIVE Remove(_, _)
Remove(t, word) ==
    IF t = <<>> THEN <<>>
    ELSE IF Head(t) = word THEN Remove(Tail(t), word)
    ELSE <<Head(t)>> \o Remove(Tail(t), word)

\* word in text
Contains(t, word) == \E i \in 1..Len(t) : t[i] = word

Oops == <<"Oops!">>
UnknownProduct == <<"Unknown Product">>
TJ == "Trader Joe's"

\* A rendered page as the scraper reads it: per name selector (in the order
\* of TraderJoesScraper._extract_product_name) whether an element matches and
\* its text_content(), the title, the resolved url, and what the selector
\* loops of the other _extract_* methods find on it.
NoElement == [exists |-> FALSE, text |-> <<>>]
Element(t) == [exists |-> TRUE, text |-> t]
NameSelectors == 1..8

PageOf(els, title, url) ==
    [elements |-> els, title |-> title, url |-> url,
     description |-> "Soft-baked cookies", price |-> "3.99",
     ingredients |-> <<"flour", "sugar">>, allergens |-> Some(<<"wheat">>),
     nutrition_facts |-> "{calories: 150.0}"]

OnlyH1(t) == [i \in NameSelectors |-> IF i = 8 THEN Element(t) ELSE NoElement]
NoH1 == [i \in NameSelectors |-> NoElement]

CookiesTitle == <<"Cookies", " ", "|", " ", TJ>>

\* a product page; an error page whose only h1 reads "Oops!"; a page with no
\* h1 and a product title; a page with nothing to extract
ProductPage(url) == PageOf(OnlyH1(<<" ", "Cookies", " ">>), CookiesTitle, url)
OopsPage(url) == PageOf(OnlyH1(Oops), <<"Oops!", " ", "|", " ", TJ>>, url)
TitlePage(url) == PageOf(NoH1, CookiesTitle, url)
BlankPage(url) == PageOf(NoH1, <<>>, url)
\* error pages whose only h1 reads "Oops!" under a product title and under
\* no title
OopsTitledPage(url) == PageOf(OnlyH1(<<" ", "Oops!">>), CookiesTitle, url)
OopsUntitledPage(url) == PageOf(OnlyH1(Oops), <<>>, url)
\* a page with two names: the second selector's element reads "Brownies",
\* the h1 fallback " Cookies "
TwoNamesPage(url) ==
    PageOf([i \in NameSelectors |->
                IF i = 2 THEN Element(<<"Brownies">>)
                ELSE IF i = 8 THEN Element(<<" ", "Cookies", " ">>)
                ELSE NoElement],
           CookiesTitle, url)
\* a page whose first selector's element is blank and whose fourth reads
\* "Oops!", before an h1 "Cookies"; its title names another product
PassedOverPage(url) ==
    PageOf([i \in NameSelectors |->
                IF i = 1 THEN Element(<<" ">>)
                ELSE IF i = 4 THEN Element(Oops)
                ELSE IF i = 8 THEN Element(<<"Cookies">>)
                ELSE NoElement],
           <<"Brownies", " ", "|", " ", TJ>>, url)
\* a page with no h1 whose title is "Cookies", without the site's name
PlainTitlePage(url) == PageOf(NoH1, <<"Cookies">>, url)

(* ------------- TraderJoesScraper (app/scrapers/traderjoes.py) ---------- *)

\* A call either returns a value or raises an exception.
\* value is {v} after a return and {} after a raise.
Ret(v) == [raised |-> FALSE, value |-> {v}, exc |-> NoneVal]
Raise(e) == [raised |-> TRUE, value |-> {}, exc |-> e]

\* the for loop going on after a name was found: the last element found
\* with non-empty stripped text other than "Oops!"
RECURSIVE FirstNameLastWins(_, _)
FirstNameLastWins(els, i) ==
    IF i > Len(els) THEN <<>>
    ELSE IF FirstNameLastWins(els, i + 1) # <<>>
         THEN FirstNameLastWins(els, i + 1)
    ELSE IF els[i].exists /\ els[i].text # <<>> /\ Strip(els[i].text) # <<>>
            /\ Strip(els[i].text) # Oops
         THEN Strip(els[i].text)
         ELSE <<>>

\* the for loop over the selectors, from selector i on: the first element
\* found with non-empty stripped text other than "Oops!"
RECURSIVE FirstName(_, _)
FirstName(els, i) ==
    IF i > Len(els) THEN <<>>
    ELSE IF els[i].exists /\ els[i].text # <<>> /\ Strip(els[i].text) # <<>>
            /\ Strip(els[i].text) # Oops
         THEN Strip(els[i].text)
         ELSE FirstName(els, i + 1)

\* the title fallback without its test of the name against "Oops!"
TitleNameAnyName(title) ==
    LET name == Strip(Remove(BeforeBar(title), TJ)) IN
    IF title # <<>> /\ Contains(title, TJ) /\ name # <<>>
    THEN name ELSE <<>>

\* the title fallback of _extract_product_name
TitleName(title) ==
    LET name == Strip(Remove(BeforeBar(title), TJ)) IN
    IF title # <<>> /\ Contains(title, TJ) /\ name # <<>> /\ name # Oops
    THEN name ELSE <<>>

\* the try block of TraderJoesScraper._extract_product_name: a failing page
\* query raises
ExtractNameTry(page, query_fault) ==
    IF query_fault THEN Raise("Error: page query")
    ELSE IF FirstName(page.elements, 1) # <<>>
         THEN Ret(FirstName(page.elements, 1))
    ELSE IF TitleName(page.title) # <<>> THEN Ret(TitleName(page.title))
    ELSE Ret(UnknownProduct)

\* TraderJoesScraper._extract_product_name: its except clause turns any
\* raise of the try block into "Unknown Product"
extract_product_name(page, query_fault) ==
    LET r == ExtractNameTry(page, query_fault) IN
    IF r.raised THEN Ret(UnknownProduct) ELSE r

\* TraderJoesScraper.can_handle, on the urls of the model: whether
\* "traderjoes.com" and "/products/" occur in url.lower()
Urls ==
    {"https://www.traderjoes.com/products/a",
     "https://www.TraderJoes.com/Products/b",
     "https://www.traderjoes.com/recipes/c"}

HasTraderJoesCom(url) ==
    url \in {"https://www.traderjoes.com/products/a",
             "https://www.TraderJoes.com/Products/b",
             "https://www.traderjoes.com/recipes/c"}
HasProductsPath(url) ==
    url \in {"https://www.traderjoes.com/products/a",
             "https://www.TraderJoes.com/Products/b"}

can_handle(url) == HasTraderJoesCom(url) /\ HasProductsPath(url)

\* Where a fault (an Exception) strikes one call of scrape, if anywhere:
\* _launch_browser; browser.new_page or the page set-up calls of setup_page;
\* page.goto; page.wait_for_load_state; page.wait_for_selector("h1");
\* inside wait_for_content; inside one _extract_* method; browser.close() on
\* leaving the async with block after a completed extraction.
\* A fault of browser.close() on leaving the block after an earlier fault
\* replaces the exception in flight and takes the same except clause.
FaultsBeforePage == {"launch", "new_page", "page_config"}
FaultsLoading == {"goto", "load_state", "content"}
FaultsSwallowed ==
    {"h1_wait", "extract_name", "extract_description", "extract_price",
     "extract_ingredients", "extract_allergens", "extract_nutrition"}
FaultPoints ==
    {"none", "close"} \cup FaultsBeforePage \cup FaultsLoading \cup FaultsSwallowed

\* str(e) of the exception a fault raises
ErrorOf(fault) ==
    IF fault = "content" THEN "Failed to load page content"
    ELSE IF fault \in {"goto", "load_state"} THEN "Timeout"
    ELSE "Error: " \o fault

\* handle_errors building the ProductData without error_message
HandleErrorsNoMessage(page, error, query_fault, id) ==
    LET product == [ProductDefaults(id) EXCEPT
                        !.url = page.url, !.scrape_status = "failed",
                        !.scrape_duration = 0]
        name == extract_product_name(page, query_fault)
    IN  Ret([product EXCEPT !.product_name =
                IF name.raised THEN @ ELSE TheOne(name.value)])

\* BaseScraper.handle_errors(page, error): page.url, not the url asked for;
\* scrape_duration 0.0; the name by self._extract_product_name, a raise of
\* which is passed over (the name then stays "")
handle_errors(page, error, query_fault, id) ==
    LET product == [ProductDefaults(id) EXCEPT
                        !.url = page.url, !.scrape_status = "failed",
                        !.error_message = error, !.scrape_duration = 0]
        name == extract_product_name(page, query_fault)
    IN  Ret([product EXCEPT !.product_name =
                IF name.raised THEN @ ELSE TheOne(name.value)])

\* the except clause without its "if page" test: handle_errors(None, e)
\* raises AttributeError at page.url
ScrapeExceptNoPageTest(url, page, page_set, error, query_fault, elapsed, id) ==
    IF page_set
    THEN handle_errors(page, error, query_fault, id)
    ELSE Raise("AttributeError")

\* the except clause of scrape
ScrapeExcept(url, page, page_set, error, query_fault, elapsed, id) ==
    IF page_set
    THEN handle_errors(page, error, query_fault, id)
    ELSE Ret([ProductDefaults(id) EXCEPT
                !.url = url, !.scrape_status = "failed",
                !.error_message = error, !.scrape_duration = elapsed])

\* TraderJoesScraper.scrape(url) in an environment env = [fault, page,
\* query_fault (page queries made by the except clause fail, the browser
\* being closed by then), elapsed (seconds from start_time to the end)];
\* id is the uuid4 of the ProductData returned
scrape(url, env, id) ==
    LET f == env.fault
        page == env.page
        except(page_set) ==
            ScrapeExcept(url, page, page_set, ErrorOf(f), env.query_fault,
                         env.elapsed, id)
        name == extract_product_name(page, f = "extract_name")
        product ==
            [ProductDefaults(id) EXCEPT
                !.url = url,
                !.product_name = TheOne(name.value),
                !.brand = TJ,
                !.description =
                    IF f = "extract_description" THEN NoneVal ELSE page.description,
                !.price = IF f = "extract_price" THEN NoneVal ELSE page.price,
                !.ingredients =
                    IF f = "extract_ingredients" THEN <<>> ELSE page.ingredients,
                !.allergens =
                    IF f = "extract_allergens" THEN NoneObj ELSE page.allergens,
                !.nutrition_facts =
                    IF f = "extract_nutrition" THEN NoneVal ELSE page.nutrition_facts,
                !.scraped_at = IsoNow,
                !.scrape_status = "success",
                !.scrape_duration = env.elapsed]
    IN  IF f \in FaultsBeforePage THEN except(FALSE)
        ELSE IF f \in FaultsLoading THEN except(TRUE)
        ELSE IF name.raised \/ f = "close" THEN except(TRUE)
        ELSE Ret(product)

(* ------------- FirebaseService (app/services/firebase.py) -------------- *)

\* A Firestore collection is a function from the ids of its documents to
\* the documents.
Put(coll, id, doc) ==
    [k \in DOMAIN coll \cup {id} |-> IF k = id THEN doc ELSE coll[k]]

EmptyColl == [k \in {} |-> {}]

\* FirebaseService._generate_url_hash: sha256(url).hexdigest(), taken as
\* collision free: a key that is not the url and differs for different urls
generate_url_hash(url) == "sha256:" \o url

\* Where one call of store_product faults, if anywhere: at the write of the
\* products document (or before it, in initialize) or at the write of the
\* url_lookup document. Every fault is caught and answered False.
StoreFaults == {"none", "products_write", "lookup_write"}

\* store_product writing the url_lookup document only when the url has none
StoreProductFirstWins(products, url_lookup, product, fault) ==
    LET written == Put(products, product.id, to_dict(product))
        h == generate_url_hash(product.url)
        indexed == IF h \in DOMAIN url_lookup THEN url_lookup
                   ELSE Put(url_lookup, h,
                            [product_id |-> product.id, url |-> product.url,
                             updated_at |-> IsoNow])
    IN  IF fault = "products_write"
        THEN [products |-> products, url_lookup |-> url_lookup, ret |-> FALSE]
        ELSE IF fault = "lookup_write"
        THEN [products |-> written, url_lookup |-> url_lookup, ret |-> FALSE]
        ELSE [products |-> written, url_lookup |-> indexed, ret |-> TRUE]

\* store_product keying the url_lookup document by the product id
StoreProductIndexById(products, url_lookup, product, fault) ==
    LET written == Put(products, product.id, to_dict(product))
        indexed == Put(url_lookup, product.id,
                       [product_id |-> product.id, url |-> product.url,
                        updated_at |-> IsoNow])
    IN  IF fault = "products_write"
        THEN [products |-> products, url_lookup |-> url_lookup, ret |-> FALSE]
        ELSE IF fault = "lookup_write"
        THEN [products |-> written, url_lookup |-> url_lookup, ret |-> FALSE]
        ELSE [products |-> written, url_lookup |-> indexed, ret |-> TRUE]

\* store_product writing the url_lookup document before the products
\* document
StoreProductIndexFirst(products, url_lookup, product, fault) ==
    LET written == Put(products, product.id, to_dict(product))
        indexed == Put(url_lookup, generate_url_hash(product.url),
                       [product_id |-> product.id, url |-> product.url,
                        updated_at |-> IsoNow])
    IN  IF fault = "lookup_write"
        THEN [products |-> products, url_lookup |-> url_lookup, ret |-> FALSE]
        ELSE IF fault = "products_write"
        THEN [products |-> products, url_lookup |-> indexed, ret |-> FALSE]
        ELSE [products |-> written, url_lookup |-> indexed, ret |-> TRUE]

\* FirebaseService.store_product: the two collections after it and the
\* value returned
store_product(products, url_lookup, product, fault) ==
    LET written == Put(products, product.id, to_dict(product))
        indexed == Put(url_lookup, generate_url_hash(product.url),
                       [product_id |-> product.id, url |-> product.url,
                        updated_at |-> IsoNow])
    IN  IF fault = "products_write"
        THEN [products |-> products, url_lookup |-> url_lookup, ret |-> FALSE]
        ELSE IF fault = "lookup_write"
        THEN [products |-> written, url_lookup |-> url_lookup, ret |-> FALSE]
        ELSE [products |-> written, url_lookup |-> indexed, ret |-> TRUE]

\* FirebaseService.get_product_by_id; ok is FALSE when the read faults
\* (caught, answered None)
get_product_by_id(products, product_id, ok) ==
    IF ok /\ product_id \in DOMAIN products
    THEN Some(from_dict(products[product_id], NoneVal))
    ELSE NoneObj

\* FirebaseService.get_product_by_url
get_product_by_url(products, url_lookup, url, ok) ==
    IF ok /\ generate_url_hash(url) \in DOMAIN url_lookup
    THEN get_product_by_id(products,
                           url_lookup[generate_url_hash(url)].product_id, ok)
    ELSE NoneObj

\* FirebaseService.store_job: the jobs collection after it and the value
\* returned; ok is FALSE when the write faults (caught, answered False)
store_job(jobs, job, ok) ==
    IF ok
    THEN [jobs |-> Put(jobs, job.job_id,
                       [job_id |-> job.job_id, url |-> job.url,
                        status |-> job.status, created_at |-> job.created_at,
                        started_at |-> job.started_at,
                        completed_at |-> job.completed_at,
                        result_product_id |-> job.result_product_id,
                        error_message |-> job.error_message,
                        retry_count |-> job.retry_count,
                        max_retries |-> job.max_retries,
                        options |-> job.options]),
          ret |-> TRUE]
    ELSE [jobs |-> jobs, ret |-> FALSE]

\* FirebaseService.get_job: a ScrapeJob built from the document
get_job(jobs, job_id, ok) ==
    IF ok /\ job_id \in DOMAIN jobs
    THEN LET data == jobs[job_id] IN
         Some([job_id |-> data["job_id"], url |-> data["url"],
               status |-> data["status"], created_at |-> data["created_at"],
               started_at |-> DictGet(data, "started_at", NoneVal),
               completed_at |-> DictGet(data, "completed_at", NoneVal),
               result_product_id |-> DictGet(data, "result_product_id", NoneVal),
               error_message |-> DictGet(data, "error_message", NoneVal),
               retry_count |-> DictGet(data, "retry_count", 0),
               max_retries |-> DictGet(data, "max_retries", DefaultMaxRetries),
               options |-> DictGet(data, "options", "{}")])
    ELSE NoneObj

\* FirebaseService.update_job_status(job_id, status, **kwargs) called with
\* the positional arguments args and the keyword arguments kwargs (a
\* function from names to values): Python binds the arguments before the
\* body, and its try block, is entered, so a call that gives more or fewer
\* than the two positional parameters raises TypeError to the caller.
\* DocumentReference.update of a document that does not exist raises, which
\* the except clause answers with False.
update_job_status(jobs, args, kwargs, ok) ==
    IF Len(args) # 2
    THEN [jobs |-> jobs, call |-> Raise("TypeError")]
    ELSE IF ok /\ args[1] \in DOMAIN jobs
    THEN [jobs |-> Put(jobs, args[1],
                       [k \in DOMAIN jobs[args[1]] \cup DOMAIN kwargs |->
                           IF k = "status" THEN args[2]
                           ELSE IF k \in DOMAIN kwargs THEN kwargs[k]
                           ELSE jobs[args[1]][k]]),
          call |-> Ret(TRUE)]
    ELSE [jobs |-> jobs, call |-> Ret(FALSE)]

(* ------------------- ScrapeResponse (app/models/api.py) ---------------- *)

DatetimeLater == "<datetime + 5 minutes>"

\* type(v) of a value handed to a pydantic model
PyType(v) ==
    IF v = NoneVal THEN "NoneType"
    ELSE IF v \in {DatetimeNow, DatetimeLater} THEN "datetime"
    ELSE "str"

\* ScrapeResponse(job_id=..., status=..., message=..., product_id=...,
\* estimated_completion=...): job_id, status and message are declared str
\* and required, product_id and estimated_completion Optional[str]; a value
\* of another type fails validation and the constructor raises
ScrapeResponse(job_id, status, message, product_id, estimated_completion) ==
    IF /\ PyType(job_id) = "str"
       /\ PyType(status) = "str"
       /\ PyType(message) = "str"
       /\ PyType(product_id) \in {"str", "NoneType"}
       /\ PyType(estimated_completion) \in {"str", "NoneType"}
    THEN Ret([job_id |-> job_id, status |-> status, message |-> message,
              product_id |-> product_id,
              estimated_completion |-> estimated_completion])
    ELSE Raise("ValidationError")

(* ------------- BaseScraper.parse_ingredients (app/scrapers/base.py) ---- *)

\* A text is a sequence of tokens: the separators "," and ";", the blank
\* " ", and words (adjacent words read as one run of letters).
Separators == {",", ";"}
TextTokens == Separators \cup {" ", "Salt", "Contains", "Ingredients:"}

\* str.lower() of a token
Lower(tok) ==
    IF tok = "Salt" THEN "salt"
    ELSE IF tok = "Contains" THEN "contains"
    ELSE IF tok = "Ingredients:" THEN "ingredients:"
    ELSE tok

RECURSIVE LowerText(_)
LowerText(t) ==
    IF t = <<>> THEN <<>> ELSE <<Lower(Head(t))>> \o LowerText(Tail(t))

\* re.split(r"[,;]", text): the parts between the separators
RECURSIVE SplitParts(_)
SplitParts(t) ==
    IF \E i \in 1..Len(t) : t[i] \in Separators
    THEN LET i == CHOOSE k \in 1..Len(t) :
                    /\ t[k] \in Separators
                    /\ \A j \in 1..(k - 1) : t[j] \notin Separators
         IN  <<SubSeq(t, 1, i - 1)>> \o SplitParts(SubSeq(t, i + 1, Len(t)))
    ELSE <<t>>

\* re.sub(r"^contains\s+", "", ingredient)
RemoveContains(ingredient) ==
    IF Len(ingredient) >= 2 /\ ingredient[1] = "contains" /\ ingredient[2] = " "
    THEN LStrip(Tail(ingredient)) ELSE ingredient

\* re.sub(r"^ingredients:\s*", "", ingredient)
RemoveIngredients(ingredient) ==
    IF ingredient # <<>> /\ Head(ingredient) = "ingredients:"
    THEN LStrip(Tail(ingredient)) ELSE ingredient

\* the loop appending a part also when it is empty after strip()
RECURSIVE CleanPartsKeepEmpty(_)
CleanPartsKeepEmpty(parts) ==
    IF parts = <<>> THEN <<>>
    ELSE <<RemoveIngredients(RemoveContains(LowerText(Strip(Head(parts)))))>>
            \o CleanPartsKeepEmpty(Tail(parts))

\* the for loop of parse_ingredients over the parts
RECURSIVE CleanParts(_)
CleanParts(parts) ==
    IF parts = <<>> THEN <<>>
    ELSE LET ingredient == LowerText(Strip(Head(parts))) IN
         (IF ingredient # <<>>
          THEN <<RemoveIngredients(RemoveContains(ingredient))>>
          ELSE <<>>) \o CleanParts(Tail(parts))

\* BaseScraper.parse_ingredients(text)
parse_ingredients(text) ==
    IF text = <<>> THEN <<>> ELSE CleanParts(SplitParts(text))

(* --------- ProductUrlScraper (app/scrapers/product_url_scraper.py) ----- *)

\* A url is a sequence of tokens: <<base>> or <<base, "?", query>>.
CategoryUrl == <<"https://www.traderjoes.com/home/products/category/products-2">>

\* the query f"filters=%7B%22page%22%3A{next_page_num}%7D"
PageQuery(n) == "filters=%7B%22page%22%3A" \o ToString(n) \o "%7D"

\* current_url.split("?")[0]
RECURSIVE BeforeQuery(_)
BeforeQuery(url) ==
    IF url = <<>> \/ Head(url) = "?" THEN <<>>
    ELSE <<Head(url)>> \o BeforeQuery(Tail(url))

\* f"{base_url}?filters=%7B%22page%22%3A{next_page_num}%7D"
NextPageUrl(page_url, next_page_num) ==
    BeforeQuery(page_url) \o <<"?", PageQuery(next_page_num)>>

\* the page numbers the site's pagination shows and its urls ask for
PageNumbers == 1..(MaxSitePages + 1)

\* int(text): the number a text of one numeral token denotes; any other
\* text raises ValueError
IsInt(t) == Len(t) = 1 /\ \E n \in PageNumbers : ToString(n) = t[1]
ParseInt(t) == CHOOSE n \in PageNumbers : ToString(n) = t[1]

\* The product links of the i-th page of the category, in document order;
\* the second has no href attribute.
Links(i) ==
    <<[href |-> "/products/pdp/" \o ToString(i) \o "-a"],
      [href |-> NoneVal],
      [href |-> "/products/pdp/" \o ToString(i) \o "-b"]>>

\* A category page as the crawler meets it: whether page.goto succeeds,
\* whether the product list appears, its links and the link (0: none) whose
\* get_attribute raises, whether the pagination container appears, the
\* "previous" and "next" arrow buttons (both of class
\* Pagination_pagination__arrow__, previous first in the document), and the
\* text of the pagination item with aria-current="page", if there is one.
PageKinds ==
    {"more", "last", "only_prev", "no_pagination", "bad_indicator",
     "no_current", "goto_fault", "list_timeout", "link_fault"}

CategoryPage(kind, i) ==
    [goto_ok |-> kind # "goto_fault",
     list_loaded |-> kind # "list_timeout",
     links |-> Links(i),
     link_fault |-> IF kind = "link_fault" THEN 3 ELSE 0,
     pagination |-> kind # "no_pagination",
     prev |-> IF i > 1 THEN "enabled" ELSE "disabled",
     next |-> IF kind = "last" THEN "disabled"
              ELSE IF kind = "only_prev" THEN "absent" ELSE "enabled",
     indicator |->
        IF kind = "no_current" THEN NoneObj
        ELSE IF kind = "bad_indicator"
        THEN Some(<<"page", " ", ToString(i), " ", "of", " ", "many">>)
        ELSE Some(<<"page", " ", ToString(i)>>)]

\* a page with no product list and no pagination
EmptyPage ==
    [goto_ok |-> TRUE, list_loaded |-> FALSE, links |-> <<>>,
     link_fault |-> 0, pagination |-> FALSE, prev |-> "absent",
     next |-> "absent", indicator |-> NoneObj]

\* the page number a url asks the site for
PageNumberOf(url) ==
    IF Len(url) < 3 THEN 1
    ELSE CHOOSE n \in PageNumbers : PageQuery(n) = url[3]

\* page.goto(url): the page the site serves. A site has the pages
\* site.kinds; asked for a page number past its last page it serves its
\* last page again (beyond = "clamp") or an empty page (beyond = "empty").
Serve(site, url) ==
    LET n == PageNumberOf(url) IN
    IF n <= Len(site.kinds) THEN CategoryPage(site.kinds[n], n)
    ELSE IF site.beyond = "clamp"
    THEN CategoryPage(site.kinds[Len(site.kinds)], Len(site.kinds))
    ELSE EmptyPage

\* the urls list built by the loop of _extract_product_urls over links
RECURSIVE FullUrls(_)
FullUrls(links) ==
    IF links = <<>> THEN <<>>
    ELSE IF Head(links).href # NoneVal
    THEN <<"https://www.traderjoes.com" \o Head(links).href>>
            \o FullUrls(Tail(links))
    ELSE FullUrls(Tail(links))

\* the try block of _extract_product_urls
ExtractUrlsTry(page) ==
    IF ~page.list_loaded THEN Raise("TimeoutError")
    ELSE IF page.link_fault \in 1..Len(page.links)
    THEN Raise("Error: get_attribute")
    ELSE Ret(FullUrls(page.links))

\* ProductUrlScraper._extract_product_urls: its except clause answers []
extract_product_urls(page) ==
    LET r == ExtractUrlsTry(page) IN
    IF r.raised THEN Ret(<<>>) ELSE r

\* query_selector('button[class*="Pagination_pagination__arrow__"]
\* :not([disabled])') finds an element: the first arrow button that is not
\* disabled, whichever arrow it is
ArrowNotDisabled(page) == page.prev = "enabled" \/ page.next = "enabled"

\* ProductUrlScraper._get_next_page_url(page), page.url being page_url: the
\* next url, or None ({}); a timeout of the wait for the pagination
\* container is caught and answered None
get_next_page_url(page, page_url) ==
    IF ~page.pagination THEN NoneObj
    ELSE IF ~ArrowNotDisabled(page) THEN NoneObj
    ELSE IF page.indicator = NoneObj THEN NoneObj
    ELSE LET current_page_num == Strip(Remove(TheOne(page.indicator), "page")) IN
         IF IsInt(current_page_num)
         THEN Some(NextPageUrl(page_url, ParseInt(current_page_num) + 1))
         ELSE NoneObj

\* the loop's test with >= for >
ReachedMaxPagesOneEarly(max_pages, current_page) ==
    /\ max_pages # NoneObj /\ TheOne(max_pages) # 0
    /\ current_page >= TheOne(max_pages)

\* "self.max_pages and current_page > self.max_pages": None and 0 are falsy
ReachedMaxPages(max_pages, current_page) ==
    /\ max_pages # NoneObj /\ TheOne(max_pages) # 0
    /\ current_page > TheOne(max_pages)

\* the except clause of scrape_category answering []
CrawlExceptDiscards(product_urls) == Ret(<<>>)

\* the except clause of scrape_category: return product_urls
CrawlExcept(product_urls) == Ret(product_urls)

(* ----------------------------- variables ------------------------------ *)

VARIABLES
    obj,          \* a ScrapeJob object in the hands of a caller of its methods
    calls,        \* the methods called on obj so far, in order
    products,     \* Firestore collection "products"
    url_lookup,   \* Firestore collection "url_lookup"
    jobs,         \* Firestore collection "jobs"
    tasks,        \* the background tasks added by scrape_product, by job id
    ids,          \* how many uuid4 ids were drawn: [job, product]
    response,     \* what the last POST /scrape request got, with the request
    scrape_args,  \* the arguments and environment of a call of scrape
    scraped,      \* what the last call of scrape gave its caller
    last_stored,  \* history: per url, the record store_product last stored
                  \* for it with success
    site,         \* the category listing a crawl runs against
    crawl,        \* one call of scrape_category: its locals, where it
                  \* stands, what it returned, and the pages it loaded
    parse_text,   \* the text handed to parse_ingredients
    parsed,       \* what parse_ingredients returned for it
    record,       \* a ProductData object
    restored      \* ProductData.from_dict(record.to_dict())

vars == <<obj, calls, products, url_lookup, jobs, tasks, ids, response,
          scrape_args, scraped, last_stored, site, crawl, parse_text, parsed,
          record, restored>>
jobVars == <<obj, calls>>
storeVars == <<products, url_lookup, jobs>>
scrapeVars == <<scrape_args, scraped>>
crawlVars == <<site, crawl>>
callVars == <<parse_text, parsed, record, restored>>

InitObj ==
    /\ obj = ScrapeJob(Uuid("j", 1), "https://www.traderjoes.com/products/a",
                       "pending", DatetimeNow, DefaultMaxRetries)
    /\ calls = <<>>

InitService ==
    /\ products = EmptyColl
    /\ url_lookup = EmptyColl
    /\ jobs = EmptyColl
    /\ tasks = EmptyColl
    /\ ids = [job |-> 0, product |-> 0]
    /\ response = NoneObj
    /\ last_stored = EmptyColl

InitScrape ==
    /\ scrape_args = NoneObj
    /\ scraped = NoneObj

\* the locals of scrape_category at its first line (lines 45-47), for a
\* ProductUrlScraper made with max_pages ({} is None); loads and served are
\* history: the urls page.goto was called with and the pages it met
CrawlState(pc, max_pages) ==
    [pc |-> pc, max_pages |-> max_pages, product_urls |-> <<>>,
     current_page |-> 1, current_url |-> NoneObj, result |-> NoneObj,
     launched |-> FALSE, loads |-> <<>>, served |-> <<>>]

\* no crawl running, no call of parse_ingredients or from_dict made
InitNoCrawl ==
    /\ site = [kinds |-> <<"last">>, beyond |-> "empty"]
    /\ crawl = CrawlState("idle", NoneObj)

InitNoCall ==
    /\ parse_text = <<>>
    /\ parsed = NoneObj
    /\ record = ProductDefaults(Uuid("p", 1))
    /\ restored = NoneObj

(* ---------------- SpecJob: the ScrapeJob methods alone ----------------- *)

MarkProcessing ==
    /\ Len(calls) < MaxCalls
    /\ obj' = mark_processing(obj)
    /\ calls' = Append(calls, "mark_processing")
    /\ UNCHANGED <<storeVars, tasks, ids, response, scrapeVars, last_stored, crawlVars, callVars>>

MarkCompleted(product_id) ==
    /\ Len(calls) < MaxCalls
    /\ obj' = mark_completed(obj, product_id)
    /\ calls' = Append(calls, "mark_completed")
    /\ UNCHANGED <<storeVars, tasks, ids, response, scrapeVars, last_stored, crawlVars, callVars>>

MarkFailed(error) ==
    /\ Len(calls) < MaxCalls
    /\ obj.retry_count < MaxFails
    /\ obj' = mark_failed(obj, error)
    /\ calls' = Append(calls, "mark_failed")
    /\ UNCHANGED <<storeVars, tasks, ids, response, scrapeVars, last_stored, crawlVars, callVars>>

NextJob ==
    \/ MarkProcessing
    \/ \E p \in ProductIds : MarkCompleted(p)
    \/ \E e \in ErrorTexts : MarkFailed(e)

InitJob == InitObj /\ InitService /\ InitScrape /\ InitNoCrawl /\ InitNoCall

SpecJob == InitJob /\ [][NextJob]_vars

(* ------------------- Spec: the service (app/main.py) ------------------- *)

SupportedUrls == {u \in Urls : can_handle(u)}

\* the except clause of scrape_product: any Exception raised in its try
\* block, the HTTPException for an unsupported url among them, is answered
\* with HTTPException(status_code=500)
ScrapeProductExcept(result) ==
    IF result.raised
    THEN [status_code |-> 500, body |-> NoneObj, detail |-> result.exc]
    ELSE [status_code |-> 200, body |-> result.value, detail |-> NoneVal]

\* the arguments add_task hands to process_scrape_job, and the task's local
\* state: where it stands, its local job and the exception it caught
Task(job_id, request) ==
    [pc |-> "scheduled", job_id |-> job_id, url |-> request.url,
     store_in_firebase |-> request.store_in_firebase,
     include_nutrition |-> request.include_nutrition,
     webhook_url |-> request.webhook_url, job |-> NoneObj, exc |-> NoneVal,
     store_fault |-> FALSE]

\* ScrapeRequest(url=..., force_refresh=...) with the defaults of the fields
\* not given (app/models/api.py)
ScrapeRequest(url, force_refresh) ==
    [url |-> url, store_in_firebase |-> TRUE, include_nutrition |-> FALSE,
     force_refresh |-> force_refresh, webhook_url |-> NoneVal]

\* POST /scrape. The FirebaseService methods it awaits make blocking
\* Firestore calls and never suspend, so the handler runs in one piece.
\* read_ok and write_ok: whether the store's read and write succeed.
ScrapeProduct(request, read_ok, write_ok) ==
    LET url == request.url
        existing ==
            IF can_handle(url) /\ ~request.force_refresh
            THEN get_product_by_url(products, url_lookup, url, read_ok)
            ELSE NoneObj
        creates == can_handle(url) /\ existing = NoneObj
        job == ScrapeJob(Uuid("j", ids.job + 1), url, "pending", DatetimeNow,
                         DefaultMaxRetries)
        result ==
            IF ~can_handle(url) THEN Raise("HTTPException 400")
            ELSE IF existing # NoneObj
            THEN ScrapeResponse(NoneVal, "completed", "Product already exists",
                                TheOne(existing).id, DatetimeNow)
            ELSE ScrapeResponse(job.job_id, "pending", "Scraping job started",
                                NoneVal, DatetimeLater)
    IN  /\ creates => ids.job < MaxJobs
        /\ jobs' = IF creates THEN store_job(jobs, job, write_ok).jobs ELSE jobs
        /\ tasks' = IF creates
                    THEN Put(tasks, job.job_id, Task(job.job_id, request))
                    ELSE tasks
        /\ ids' = IF creates THEN [ids EXCEPT !.job = @ + 1] ELSE ids
        /\ response' =
              Some([url |-> url, force_refresh |-> request.force_refresh,
                    \* history: the id of the product the store gave for url,
                    \* the one it held for url, and whether its read faulted
                    found |-> {p.id : p \in existing},
                    indexed |-> {p.id : p \in get_product_by_url(
                                    products, url_lookup, url, TRUE)},
                    read_ok |-> read_ok \/ ~can_handle(url)
                                    \/ request.force_refresh,
                    \* history: the id of the job made for the request
                    created |-> IF creates THEN {job.job_id} ELSE {},
                    answer |-> ScrapeProductExcept(result)])
        /\ UNCHANGED <<jobVars, products, url_lookup, scrapeVars, last_stored, crawlVars, callVars>>

NoKwargs == [k \in {} |-> NoneVal]

\* process_scrape_job, lines 158-161: the framework starts the task; whether
\* it does when the handler that added it raised is the framework's choice
\* (the task may never be started)
TaskGetJob(t, ok) ==
    /\ tasks[t].pc = "scheduled"
    /\ LET job == get_job(jobs, t, ok) IN
       tasks' = [tasks EXCEPT ![t].job = job,
                              ![t].store_fault = @ \/ ~ok,
                              ![t].pc = IF job = NoneObj THEN "done" ELSE "begin"]
    /\ UNCHANGED <<jobVars, storeVars, ids, response, scrapeVars,
                   last_stored, crawlVars, callVars>>

\* process_scrape_job, lines 163-164 and, the call of update_job_status
\* raising, the entry of the except clause (lines 182-183). Lines 166-180
\* follow a return of update_job_status(job), which no call with one
\* positional argument makes.
TaskBegin(t, ok) ==
    /\ tasks[t].pc = "begin"
    /\ LET job == mark_processing(TheOne(tasks[t].job))
           upd == update_job_status(jobs, <<job>>, NoKwargs, ok)
       IN  /\ jobs' = upd.jobs
           /\ tasks' = [tasks EXCEPT
                  ![t].job = Some(job),
                  ![t].exc = upd.call.exc,
                  ![t].pc = IF upd.call.raised THEN "handler" ELSE "scrape"]
    /\ UNCHANGED <<jobVars, products, url_lookup, ids, response, scrapeVars,
                   last_stored, crawlVars, callVars>>

\* process_scrape_job, lines 186-187: the except clause reads the job again
HandlerGetJob(t, ok) ==
    /\ tasks[t].pc = "handler"
    /\ LET job == get_job(jobs, t, ok) IN
       tasks' = [tasks EXCEPT ![t].job = job,
                              ![t].store_fault = @ \/ ~ok,
                              ![t].pc = IF job = NoneObj THEN "done" ELSE "fail"]
    /\ UNCHANGED <<jobVars, storeVars, ids, response, scrapeVars,
                   last_stored, crawlVars, callVars>>

\* process_scrape_job, lines 188-189: an exception raised inside the except
\* clause leaves process_scrape_job unhandled
HandlerFail(t, ok) ==
    /\ tasks[t].pc = "fail"
    /\ LET job == mark_failed(TheOne(tasks[t].job), tasks[t].exc)
           upd == update_job_status(jobs, <<job>>, NoKwargs, ok)
       IN  /\ jobs' = upd.jobs
           /\ tasks' = [tasks EXCEPT
                  ![t].job = Some(job),
                  ![t].exc = IF upd.call.raised THEN upd.call.exc ELSE @,
                  ![t].pc = IF upd.call.raised THEN "crashed" ELSE "done"]
    /\ UNCHANGED <<jobVars, products, url_lookup, ids, response, scrapeVars,
                   last_stored, crawlVars, callVars>>

\* the urls whose page does not load
RenderFaultUrls == {"https://www.TraderJoes.com/Products/b"}

\* the environments scrape meets in the service model: no fault, a browser
\* that does not launch, a page that does not load (its url then the one
\* asked for or about:blank)
ServiceEnvs(url) ==
    IF url \in RenderFaultUrls
    THEN {[fault |-> "goto", page |-> BlankPage(u), query_fault |-> TRUE,
           elapsed |-> 1] : u \in {url, "about:blank"}}
    ELSE {[fault |-> f, page |-> ProductPage(url), query_fault |-> TRUE,
           elapsed |-> 1] : f \in {"none", "launch"}}

\* a caller of the scraper and of the store adapter, as lines 167-171 of
\* process_scrape_job are: product = scrape(url), then
\* store_product(product)
ScrapeAndStore(url, env, fault) ==
    /\ ids.product < MaxProducts
    /\ LET product == TheOne(scrape(url, env, Uuid("p", ids.product + 1)).value)
           st == store_product(products, url_lookup, product, fault)
       IN  /\ products' = st.products
           /\ url_lookup' = st.url_lookup
           /\ last_stored' = IF st.ret THEN Put(last_stored, product.url, product)
                             ELSE last_stored
    /\ ids' = [ids EXCEPT !.product = @ + 1]
    /\ UNCHANGED <<jobVars, jobs, tasks, response, scrapeVars, crawlVars, callVars>>

Init == InitObj /\ InitService /\ InitScrape /\ InitNoCrawl /\ InitNoCall

Next ==
    \/ \E url \in Urls, force_refresh \in BOOLEAN, read_ok \in BOOLEAN,
          write_ok \in BOOLEAN :
          ScrapeProduct(ScrapeRequest(url, force_refresh), read_ok, write_ok)
    \/ \E t \in DOMAIN tasks, ok \in BOOLEAN : TaskGetJob(t, ok)
    \/ \E t \in DOMAIN tasks, ok \in BOOLEAN : TaskBegin(t, ok)
    \/ \E t \in DOMAIN tasks, ok \in BOOLEAN : HandlerGetJob(t, ok)
    \/ \E t \in DOMAIN tasks, ok \in BOOLEAN : HandlerFail(t, ok)
    \/ \E url \in SupportedUrls, fault \in StoreFaults :
          \E env \in ServiceEnvs(url) : ScrapeAndStore(url, env, fault)

Spec == Init /\ [][Next]_vars

(* ------------------ SpecScrape: one call of scrape --------------------- *)

PagesAt(url) ==
    {ProductPage(url), OopsPage(url), TitlePage(url), BlankPage(url),
     OopsTitledPage(url), OopsUntitledPage(url), TwoNamesPage(url),
     PassedOverPage(url), PlainTitlePage(url)}

ScrapeInputs ==
    {[url |-> url,
      env |-> [fault |-> f, page |-> page, query_fault |-> q, elapsed |-> e]] :
        url \in Urls, f \in FaultPoints, q \in BOOLEAN, e \in 1..MaxElapsed,
        page \in UNION {PagesAt(u) : u \in {"about:blank"} \cup Urls}}

InitScrapeCall ==
    /\ InitObj /\ InitService /\ InitNoCrawl /\ InitNoCall
    /\ scrape_args \in {Some(a) : a \in ScrapeInputs}
    /\ scraped = NoneObj

CallScrape ==
    /\ scraped = NoneObj
    /\ LET a == TheOne(scrape_args) IN
       scraped' = Some(scrape(a.url, a.env, Uuid("p", 1)))
    /\ UNCHANGED <<jobVars, storeVars, tasks, ids, response, scrape_args,
                   last_stored, crawlVars, callVars>>

SpecScrape == InitScrapeCall /\ [][CallScrape]_vars

(* --------------- SpecCrawl: one call of scrape_category ---------------- *)

Sites ==
    {[kinds |-> k, beyond |-> b] :
        k \in UNION {[1..n -> PageKinds] : n \in 1..MaxSitePages},
        b \in {"clamp", "empty"}}

\* max_pages of the constructor: None (the default), 0, or a page cap
MaxPagesValues == {NoneObj} \cup {Some(k) : k \in 0..MaxPageCap}

InitCrawl ==
    /\ InitObj /\ InitService /\ InitScrape /\ InitNoCall
    /\ site \in Sites
    /\ crawl \in {CrawlState("start", m) : m \in MaxPagesValues}

\* lines 50-52: the browser and the page; a fault of _launch_browser or
\* setup_page is caught by the except clause (lines 83-85)
CrawlLaunch(ok) ==
    /\ crawl.pc = "start"
    /\ crawl' =
          IF ok
          THEN [crawl EXCEPT !.pc = "loop", !.launched = TRUE,
                             !.current_url = Some(CategoryUrl)]
          ELSE [crawl EXCEPT !.pc = "done",
                             !.result = Some(CrawlExcept(crawl.product_urls))]
    /\ UNCHANGED <<jobVars, storeVars, tasks, ids, response, scrapeVars,
                   last_stored, site, callVars>>

\* one pass of the while loop past its max_pages test (lines 54-79): goto,
\* extract and extend, next url, current_page += 1; a fault of page.goto
\* is caught by the except clause
CrawlPage ==
    /\ crawl.pc = "loop"
    /\ crawl.current_url # NoneObj
    /\ ~ReachedMaxPages(crawl.max_pages, crawl.current_page)
    /\ Len(crawl.loads) < MaxLoads
    /\ LET current_url == TheOne(crawl.current_url)
           page == Serve(site, current_url)
           page_urls == TheOne(extract_product_urls(page).value)
       IN  crawl' =
             IF ~page.goto_ok
             THEN [crawl EXCEPT
                      !.pc = "done",
                      !.result = Some(CrawlExcept(crawl.product_urls)),
                      !.loads = Append(@, current_url),
                      !.served = Append(@, page)]
             ELSE [crawl EXCEPT
                      !.product_urls = @ \o page_urls,
                      !.current_url = get_next_page_url(page, current_url),
                      !.current_page = @ + 1,
                      !.loads = Append(@, current_url),
                      !.served = Append(@, page)]
    /\ UNCHANGED <<jobVars, storeVars, tasks, ids, response, scrapeVars,
                   last_stored, site, callVars>>

\* the loop ends (current_url None, or the break of line 62) and line 81
\* returns; a fault of browser.close() on leaving the async with block is
\* caught by the except clause
CrawlReturn(close_ok) ==
    /\ crawl.pc = "loop"
    /\ \/ crawl.current_url = NoneObj
       \/ ReachedMaxPages(crawl.max_pages, crawl.current_page)
    /\ crawl' = [crawl EXCEPT
                    !.pc = "done",
                    !.result = Some(IF close_ok THEN Ret(crawl.product_urls)
                                    ELSE CrawlExcept(crawl.product_urls))]
    /\ UNCHANGED <<jobVars, storeVars, tasks, ids, response, scrapeVars,
                   last_stored, site, callVars>>

NextCrawl ==
    \/ \E ok \in BOOLEAN : CrawlLaunch(ok)
    \/ CrawlPage
    \/ \E close_ok \in BOOLEAN : CrawlReturn(close_ok)

SpecCrawl == InitCrawl /\ [][NextCrawl]_vars

(* ------------- SpecParse: one call of parse_ingredients ---------------- *)

RECURSIVE TextsOfLen(_)
TextsOfLen(n) ==
    IF n = 0 THEN {<<>>}
    ELSE {Append(t, tok) : t \in TextsOfLen(n - 1), tok \in TextTokens}

Texts == UNION {TextsOfLen(n) : n \in 0..MaxTextLen}

InitParse ==
    /\ InitObj /\ InitService /\ InitScrape /\ InitNoCrawl
    /\ parse_text \in Texts
    /\ parsed = NoneObj
    /\ record = ProductDefaults(Uuid("p", 1))
    /\ restored = NoneObj

CallParseIngredients ==
    /\ parsed = NoneObj
    /\ parsed' = Some(parse_ingredients(parse_text))
    /\ UNCHANGED <<jobVars, storeVars, tasks, ids, response, scrapeVars,
                   last_stored, crawlVars, parse_text, record, restored>>

SpecParse == InitParse /\ [][CallParseIngredients]_vars

(* ---------- SpecRoundTrip: to_dict then from_dict of a ProductData ----- *)

\* the ProductData objects scrape returns, and one with every default
Records ==
    {TheOne(scrape(a.url, a.env, Uuid("p", 1)).value) : a \in ScrapeInputs}
        \cup {ProductDefaults(Uuid("p", 1))}

InitRoundTrip ==
    /\ InitObj /\ InitService /\ InitScrape /\ InitNoCrawl
    /\ parse_text = <<>>
    /\ parsed = NoneObj
    /\ record \in Records
    /\ restored = NoneObj

RoundTrip ==
    /\ restored = NoneObj
    /\ restored' = Some(from_dict(to_dict(record), Uuid("p", 2)))
    /\ UNCHANGED <<jobVars, storeVars, tasks, ids, response, scrapeVars,
                   last_stored, crawlVars, parse_text, parsed, record>>

SpecRoundTrip == InitRoundTrip /\ [][RoundTrip]_vars

(* ------------------------------ claims --------------------------------- *)

(* C1: for any ScrapeJob and any sequence of mark_processing,              *)
(* mark_completed and mark_failed calls, the job never has both            *)
(* result_product_id and error_message set.                                *)
C1_NotBothResultAndError ==
    ~(obj.result_product_id # NoneVal /\ obj.error_message # NoneVal)

FinalStatus == {"completed", "failed"}

(* C2: a task's job enters completed or failed only from processing, and   *)
(* a job that is completed or failed never changes status again; the same  *)
(* for the job's stored document.                                          *)
C2_FinalOnlyFromProcessing ==
    [][/\ \A t \in DOMAIN tasks :
            \A old \in tasks[t].job : \A new \in tasks'[t].job :
                /\ (new.status \in FinalStatus /\ new.status # old.status)
                        => old.status = "processing"
                /\ old.status \in FinalStatus => new.status = old.status
       /\ \A j \in DOMAIN jobs :
            /\ (jobs'[j].status \in FinalStatus
                    /\ jobs'[j].status # jobs[j].status)
                    => jobs[j].status = "processing"
            /\ jobs[j].status \in FinalStatus
                    => jobs'[j].status = jobs[j].status]_vars

(* C3: for a supported url, with the store's read answering, scrape_product*)
(* creates a job if and only if force_refresh is set or the store holds no *)
(* product for the url; when it holds one and force_refresh is not set the *)
(* caller gets the existing product's id.                                  *)
C3_DedupReturnsExistingId ==
    \A r \in response :
        (can_handle(r.url) /\ r.read_ok) =>
            /\ (r.created # {}) <=> (r.force_refresh \/ r.indexed = {})
            /\ (r.indexed # {} /\ ~r.force_refresh) =>
                    /\ r.answer.status_code = 200
                    /\ \A b \in r.answer.body : {b.product_id} = r.indexed
                    /\ r.answer.body # {}

(* C4: the URL index entry of a url references the record most recently    *)
(* stored for it with success, get_product_by_url returns that record, and *)
(* a request without force_refresh that reads it creates no job.           *)
C4_IndexReferencesLatest ==
    /\ \A u \in DOMAIN last_stored :
            /\ generate_url_hash(u) \in DOMAIN url_lookup
            /\ url_lookup[generate_url_hash(u)].product_id = last_stored[u].id
            /\ get_product_by_url(products, url_lookup, u, TRUE)
                    = Some(last_stored[u])
    /\ \A r \in response :
            (r.indexed # {} /\ r.read_ok /\ ~r.force_refresh) =>
                (r.found = r.indexed /\ r.created = {})

RecordsOf(u) == {id \in DOMAIN products : products[id]["url"] = u}

\* a url stored twice, the index on the second record, and a request
\* without force_refresh that found it
C4_Witness ==
    \E u \in DOMAIN last_stored : \E r \in response :
        /\ Cardinality(RecordsOf(u)) = 2
        /\ last_stored[u].id = Uuid("p", 2)
        /\ r.url = u /\ ~r.force_refresh /\ r.found = {Uuid("p", 2)}

C6_ScrapeAlwaysReturns ==
    \A r \in scraped :
        /\ ~r.raised
        /\ \A p \in r.value : p.scrape_status \in {"success", "failed"}
        /\ r.value # {}

\* a fault after the page exists, with the except clause's own name
\* extraction failing too
C6_Witness ==
    \E a \in scrape_args : \E r \in scraped :
        /\ a.env.fault = "goto" /\ a.env.query_fault
        /\ \E p \in r.value : p.scrape_status = "failed"

Ended == {"done", "crashed"}

(* C7: process_scrape_job never ends with an unhandled exception.          *)
C7_TaskNeverRaises ==
    \A t \in DOMAIN tasks : tasks[t].pc # "crashed"

(* C8: a job for whose url the scraper's result is a failed ProductData    *)
(* ends, the store answering, in status failed with an error message.      *)
C8_FailedScrapeFailsJob ==
    \A t \in DOMAIN tasks :
        (/\ tasks[t].pc \in Ended
         /\ ~tasks[t].store_fault
         /\ t \in DOMAIN jobs
         /\ \A env \in ServiceEnvs(tasks[t].url) :
               \A p \in scrape(tasks[t].url, env, Uuid("p", 1)).value :
                   p.scrape_status = "failed")
        => (jobs[t].status = "failed" /\ jobs[t].error_message # NoneVal)

(* C9: every transition is persisted: once process_scrape_job has made the *)
(* Begin transition (line 164 done), get_job reads the job back with the   *)
(* processing status, or a later one, and started_at set; after Fail it    *)
(* reads status failed with completed_at, error_message and retry_count.   *)
C9_TransitionsPersisted ==
    \A t \in DOMAIN tasks :
        /\ tasks[t].pc \in {"handler", "fail", "crashed"} =>
              \A j \in get_job(jobs, t, TRUE) :
                  j.status # "pending" /\ j.started_at # NoneVal
        /\ (tasks[t].pc \in Ended /\ \E m \in tasks[t].job : m.status = "failed") =>
              \A j \in get_job(jobs, t, TRUE) :
                  /\ j.status = "failed" /\ j.completed_at # NoneVal
                  /\ j.error_message # NoneVal /\ j.retry_count > 0

(* C10: a job stored as pending whose task has run to its end, the store   *)
(* answering every read and write, has stored status completed or failed.  *)
C10_EndedTaskJobFinal ==
    \A t \in DOMAIN tasks :
        (tasks[t].pc \in Ended /\ ~tasks[t].store_fault /\ t \in DOMAIN jobs)
            => jobs[t].status \in FinalStatus

(* C11: for any ScrapeJob and any sequence of mark_processing,             *)
(* mark_completed and mark_failed calls, retry_count never exceeds         *)
(* max_retries.                                                            *)
C11_RetryCountWithinMax ==
    obj.retry_count <= obj.max_retries

(* C12: for every job of scrape_product and process_scrape_job, in the     *)
(* task's local job and in the stored document alike, result_product_id is *)
(* set if and only if the status is completed and error_message is set if  *)
(* and only if the status is failed.                                       *)
C12_ResultIffCompletedErrorIffFailed ==
    /\ \A t \in DOMAIN tasks : \A j \in tasks[t].job :
            /\ (j.result_product_id # NoneVal) <=> (j.status = "completed")
            /\ (j.error_message # NoneVal) <=> (j.status = "failed")
    /\ \A t \in DOMAIN jobs :
            /\ (jobs[t].result_product_id # NoneVal)
                    <=> (jobs[t].status = "completed")
            /\ (jobs[t].error_message # NoneVal) <=> (jobs[t].status = "failed")

\* a task whose except clause has marked its job failed
C12_Witness ==
    \E t \in DOMAIN tasks : \E j \in tasks[t].job :
        /\ tasks[t].pc = "crashed" /\ j.status = "failed"
        /\ j.error_message = "TypeError" /\ t \in DOMAIN jobs

(* C13: every ProductData returned by scrape has scrape_status success or  *)
(* failed; error_message is None when it is success and set when it is     *)
(* failed.                                                                 *)
C13_StatusAndErrorMessage ==
    \A r \in scraped : \A p \in r.value :
        /\ p.scrape_status \in {"success", "failed"}
        /\ p.scrape_status = "success" => p.error_message = NoneVal
        /\ p.scrape_status = "failed" => p.error_message # NoneVal

\* a failure with a page, answered by handle_errors
C13_Witness ==
    \E a \in scrape_args : \E r \in scraped : \E p \in r.value :
        /\ a.env.fault = "content" /\ p.scrape_status = "failed"
        /\ p.error_message = "Failed to load page content"

(* C14: every ProductData returned by scrape, on the success path and on   *)
(* both failure paths, has a non-empty product_name.                       *)
C14_NameNeverEmpty ==
    \A r \in scraped : \A p \in r.value : p.product_name # <<>>

\* the page's only h1 (the last selector's element, no other matching)
\* reads "Oops!"
OnlyH1ReadsOops(page) ==
    /\ \A i \in 1..7 : ~page.elements[i].exists
    /\ page.elements[8].exists
    /\ Strip(page.elements[8].text) = Oops

\* the calls of scrape in which _extract_product_name reads the page with
\* no fault of its queries
NameRead(a, p) ==
    \/ p.scrape_status = "success" /\ a.env.fault # "extract_name"
    \/ /\ p.scrape_status = "failed" /\ ~a.env.query_fault
       /\ a.env.fault \notin FaultsBeforePage

(* C15 as claimed: for every page whose only h1 reads "Oops!", whatever    *)
(* its title, the extracted name is "Unknown Product".                     *)
C15_OopsYieldsUnknownProduct ==
    \A a \in scrape_args : \A r \in scraped : \A p \in r.value :
        (OnlyH1ReadsOops(a.env.page) /\ NameRead(a, p))
            => p.product_name = UnknownProduct

(* C15 as amended: for every page whose only h1 reads "Oops!" the          *)
(* extracted name is never "Oops!": it is the name the title gives         *)
(* ("Cookies" for "Cookies | Trader Joe's"), and "Unknown Product" when    *)
(* the title gives none (no title, or "Oops! | Trader Joe's").             *)
C15_OopsNeverAName ==
    \A a \in scrape_args : \A r \in scraped : \A p \in r.value :
        /\ p.product_name # Oops
        /\ (OnlyH1ReadsOops(a.env.page) /\ NameRead(a, p)) =>
              /\ a.env.page.title = CookiesTitle => p.product_name = <<"Cookies">>
              /\ a.env.page.title \in {<<>>, <<"Oops!", " ", "|", " ", TJ>>}
                    => p.product_name = UnknownProduct

\* an "Oops!" page titled "Oops! | Trader Joe's", read on the success path
C15_Witness ==
    \E a \in scrape_args : \E r \in scraped : \E p \in r.value :
        /\ OnlyH1ReadsOops(a.env.page) /\ a.env.fault = "none"
        /\ a.env.page.title = <<"Oops!", " ", "|", " ", TJ>>
        /\ p.product_name = UnknownProduct

\* scrape_category has returned the list ResultUrls
CrawlReturned ==
    /\ crawl.pc = "done" /\ crawl.result # NoneObj
    /\ ~TheOne(crawl.result).raised

ResultUrls == TheOne(TheOne(crawl.result).value)

\* the links with an href of the given pages, in order
RECURSIVE AllLinks(_)
AllLinks(pages) ==
    IF pages = <<>> THEN <<>>
    ELSE FullUrls(Head(pages).links) \o AllLinks(Tail(pages))

\* the page loaded with no fault, its links read with no fault
LoadedSound(page) ==
    page.goto_ok /\ page.list_loaded /\ page.link_fault = 0

\* the page's current-page indicator is there and, "page" removed and
\* stripped, is an integer
IndicatorParses(page) ==
    /\ page.pagination /\ page.indicator # NoneObj
    /\ IsInt(Strip(Remove(TheOne(page.indicator), "page")))

\* the page offers an enabled next page
OffersNext(page) ==
    LoadedSound(page) /\ page.next = "enabled" /\ IndicatorParses(page)

(* C16: with max_pages = k >= 1 and every page met offering an enabled     *)
(* next page, scrape_category loads exactly k pages and returns exactly    *)
(* the links of those k pages.                                             *)
C16_PageCapLoadsExactlyK ==
    \A k \in 1..MaxPageCap :
        (/\ crawl.pc = "done" /\ crawl.launched
         /\ crawl.max_pages = Some(k)
         /\ \A i \in 1..Len(crawl.served) : OffersNext(crawl.served[i]))
        => /\ CrawlReturned
           /\ Len(crawl.loads) = k
           /\ ResultUrls = AllLinks(crawl.served)

\* max_pages 2 against a listing that always offers a next page: two pages
\* loaded, their four links returned
C16_Witness ==
    /\ CrawlReturned /\ crawl.max_pages = Some(2)
    /\ Len(crawl.loads) = 2 /\ Len(ResultUrls) = 4
    /\ \A i \in 1..Len(crawl.served) : OffersNext(crawl.served[i])

(* C17: when page N is the first page whose current-page indicator cannot  *)
(* be parsed as an integer (every page up to N loading with no fault),     *)
(* scrape_category returns exactly the links of pages 1..N-1.              *)
C17_StopsBeforeUnparsedPage ==
    \A n \in 1..Len(crawl.served) :
        (/\ CrawlReturned
         /\ \A i \in 1..n : LoadedSound(crawl.served[i])
         /\ \A i \in 1..(n - 1) : IndicatorParses(crawl.served[i])
         /\ crawl.served[n].pagination /\ crawl.served[n].indicator # NoneObj
         /\ ~IndicatorParses(crawl.served[n]))
        => ResultUrls = AllLinks(SubSeq(crawl.served, 1, n - 1))

(* C18: scrape_category always terminates. The site serving the same page  *)
(* for the same url, a crawl without max_pages that loads a url a second   *)
(* time repeats that pass of the loop for ever; so termination requires    *)
(* that such a crawl never loads a url twice.                              *)
C18_UncappedCrawlLoadsNoUrlTwice ==
    (crawl.max_pages = NoneObj) =>
        \A i, j \in 1..Len(crawl.loads) :
            i # j => crawl.loads[i] # crawl.loads[j]

\* what product_urls holds of a page: its links when its extraction ended
\* with no fault, nothing otherwise
RECURSIVE Accumulated(_)
Accumulated(pages) ==
    IF pages = <<>> THEN <<>>
    ELSE (IF LoadedSound(Head(pages)) THEN FullUrls(Head(pages).links)
          ELSE <<>>) \o Accumulated(Tail(pages))

C20_NextPageOnlyByNextControl ==
    \A i \in 1..(Len(crawl.loads) - 1) : crawl.served[i].next = "enabled"

(* C21: for every url that can_handle refuses, scrape_product stores no    *)
(* job, schedules no task, and answers with HTTP 400.                      *)
C21_UnsupportedUrlAnswered400 ==
    \A r \in response :
        ~can_handle(r.url) =>
            /\ r.created = {}
            /\ r.answer.status_code = 400

(* C26: two jobs for the same url, both tasks run to their end with the    *)
(* store answering: each job's result_product_id is the id of a record of  *)
(* that url, the two differ, and the URL index references one of them.     *)
C26_EachJobKeepsItsOwnRecord ==
    \A t1, t2 \in DOMAIN tasks :
        (/\ t1 # t2 /\ tasks[t1].url = tasks[t2].url
         /\ tasks[t1].pc \in Ended /\ tasks[t2].pc \in Ended
         /\ ~tasks[t1].store_fault /\ ~tasks[t2].store_fault
         /\ t1 \in DOMAIN jobs /\ t2 \in DOMAIN jobs)
        => /\ jobs[t1].result_product_id \in RecordsOf(tasks[t1].url)
           /\ jobs[t2].result_product_id \in RecordsOf(tasks[t2].url)
           /\ jobs[t1].result_product_id # jobs[t2].result_product_id
           /\ \E h \in DOMAIN url_lookup :
                 url_lookup[h].product_id \in
                     {jobs[t1].result_product_id, jobs[t2].result_product_id}

C30_IndexEntryHasProduct ==
    \A h \in DOMAIN url_lookup :
        get_product_by_id(products, url_lookup[h].product_id, TRUE) # NoneObj

\* a store_product that failed at its url_lookup write after one that
\* succeeded: two products, the index on the first
C30_Witness ==
    /\ Cardinality(DOMAIN products) = 2
    /\ \E h \in DOMAIN url_lookup :
          /\ url_lookup[h].product_id = Uuid("p", 1)
          /\ products[Uuid("p", 2)]["url"] = url_lookup[h].url

(* C24: every ProductData returned by scrape carries in scrape_duration    *)
(* the time elapsed from the start of the call to its end, on success and  *)
(* on a fault before or after the page exists.                             *)
C24_DurationIsElapsed ==
    \A a \in scrape_args : \A r \in scraped : \A p \in r.value :
        p.scrape_duration = a.env.elapsed

\* the selector's element exists with non-empty trimmed text other than
\* "Oops!"
Qualifies(el) ==
    el.exists /\ Strip(el.text) # <<>> /\ Strip(el.text) # Oops

\* the title with the site's boilerplate stripped: "X | Trader Joe's"
\* gives X
StrippedTitle(title) == Strip(Remove(BeforeBar(title), TJ))

\* the name by the selectors, the first that qualifies winning, then by
\* title_name, then "Unknown Product"
NameBy(page, title_name) ==
    IF \E i \in NameSelectors : Qualifies(page.elements[i])
    THEN LET first == CHOOSE i \in NameSelectors :
                        /\ Qualifies(page.elements[i])
                        /\ \A j \in 1..(i - 1) : ~Qualifies(page.elements[j])
         IN  Strip(page.elements[first].text)
    ELSE IF title_name # <<>> /\ title_name # Oops THEN title_name
    ELSE UnknownProduct

(* C25 as claimed: the name is the trimmed text of the first selector that *)
(* qualifies; if none does, the page title with its boilerplate stripped   *)
(* when that is non-empty and not "Oops!"; otherwise "Unknown Product".    *)
C25_NameBySelectorsThenTitle ==
    \A a \in scrape_args : \A r \in scraped : \A p \in r.value :
        NameRead(a, p) =>
            p.product_name = NameBy(a.env.page, StrippedTitle(a.env.page.title))

(* C25 as amended: the same, the title being used only when it contains    *)
(* "Trader Joe's" (its text before the first "|", "Trader Joe's" removed,  *)
(* trimmed); a title without the site's name gives "Unknown Product".      *)
C25_NameBySelectorsThenSiteTitle ==
    \A a \in scrape_args : \A r \in scraped : \A p \in r.value :
        NameRead(a, p) =>
            p.product_name =
                NameBy(a.env.page,
                       IF Contains(a.env.page.title, TJ)
                       THEN StrippedTitle(a.env.page.title) ELSE <<>>)

\* a page with two names read on the success path: the earlier selector's
\* "Brownies" is the name, not the h1's "Cookies"
C25_Witness ==
    \E a \in scrape_args : \E r \in scraped : \E p \in r.value :
        /\ a.env.fault = "none"
        /\ a.env.page.elements[2] = Element(<<"Brownies">>)
        /\ a.env.page.elements[8].exists
        /\ p.product_name = <<"Brownies">>

\* the text has nothing but separators
OnlySeparators(text) == \A i \in 1..Len(text) : text[i] \in Separators

\* the text has nothing but separators and blanks
OnlySeparatorsAndBlanks(text) ==
    \A i \in 1..Len(text) : text[i] \in Separators \cup {" "}

(* C22 as claimed: parse_ingredients returns a list, which is empty if and *)
(* only if the text is empty or consists only of "," and ";".              *)
C22_EmptyIffOnlySeparators ==
    \A l \in parsed : (l = <<>>) <=> OnlySeparators(parse_text)

(* C22 as amended: parse_ingredients returns a list, which is empty if and *)
(* only if every part of the text between separators is empty or blank     *)
(* (the text has only separators and whitespace).                          *)
C22_EmptyIffOnlySeparatorsAndBlanks ==
    \A l \in parsed : (l = <<>>) <=> OnlySeparatorsAndBlanks(parse_text)

\* a text of blanks and a separator, parsed to the empty list
C22_Witness ==
    /\ parse_text = <<" ", ",", " ">>
    /\ parsed = Some(<<>>)

(* C27: every token of the list parse_ingredients returns is non-empty,    *)
(* trimmed and lowercase.                                                  *)
C27_TokensNonEmptyTrimmedLower ==
    \A l \in parsed : \A i \in 1..Len(l) :
        /\ l[i] # <<>>
        /\ Strip(l[i]) = l[i]
        /\ LowerText(l[i]) = l[i]

\* the Optional fields of ProductData held as None or a str
OptionalStrKeys ==
    {"brand", "description", "price", "nutrition_facts", "error_message"}

(* C23: from_dict(p.to_dict()) equals p in all fields, and every optional  *)
(* field that is None in p is None in the result.                          *)
C23_RoundTripReproduces ==
    \A r \in restored :
        /\ r = record
        /\ \A k \in OptionalStrKeys : record[k] = NoneVal => r[k] = NoneVal
        /\ record.allergens = NoneObj => r.allergens = NoneObj

\* a failed record, brand and price absent, taken through the round trip
C23_Witness ==
    \E r \in restored :
        /\ record.scrape_status = "failed" /\ record.brand = NoneVal
        /\ record.price = NoneVal /\ record.error_message # NoneVal
        /\ r.brand = NoneVal /\ r.error_message = record.error_message

====
